---------------------------- MODULE Spec2Model ----------------------------
(***************************************************************************)
(* Model of the Kubernetes manifest identifier validators of               *)
(* martinflemingdev/k8s_constraints.  The validators are pure functions    *)
(* over Go strings.  A Go string is modelled as a sequence of bytes, a     *)
(* printable byte written as the one-character string of it and every      *)
(* other byte as the token "0xNN" (the backquote is "0x60"); an error      *)
(* value is modelled by its text (err.Error()), nil by NoError.  The source holds several drafts of *)
(* the same function in different files; every draft a claim refers to is  *)
(* modelled under the source's name, suffixed by the file it comes from    *)
(* where two drafts differ.                                                *)
(***************************************************************************)
EXTENDS Integers, Sequences, FiniteSets, TLC

(***************************************************************************)
(* Bytes and character classes.                                            *)
(***************************************************************************)
Lower ==
    {"a","b","c","d","e","f","g","h","i","j","k","l","m",
     "n","o","p","q","r","s","t","u","v","w","x","y","z"}

Upper ==
    {"A","B","C","D","E","F","G","H","I","J","K","L","M",
     "N","O","P","Q","R","S","T","U","V","W","X","Y","Z"}

Digit == {"0","1","2","3","4","5","6","7","8","9"}

\* The bytes >= 0x80 the inputs of the model are built from, with their values.
ByteValue ==
    [b \in {"0xA9", "0xBF", "0xC3", "0xFE", "0xFF"} |->
        CASE b = "0xA9" -> 169
          [] b = "0xBF" -> 191
          [] b = "0xC3" -> 195
          [] b = "0xFE" -> 254
          [] b = "0xFF" -> 255]

IsASCII(b) == b \notin DOMAIN ByteValue

(***************************************************************************)
(* regexp: the patterns of the source as syntax trees, and MatchString as  *)
(* the set of positions a match starting at position 0 can end at (the     *)
(* patterns all start with ^, so a match can only start there).            *)
(***************************************************************************)
Cls(S) == [t |-> "cls", set |-> S]

Cat(xs) == [t |-> "cat", xs |-> xs]

Alt(xs) == [t |-> "alt", xs |-> xs]

Opt(r) == [t |-> "opt", r |-> r]

Star(r) == [t |-> "star", r |-> r]

Plus(r) == Cat(<<r, Star(r)>>)

Lit(s) == Cat([i \in 1..Len(s) |-> Cls({s[i]})])

RECURSIVE Ends(_, _, _)
RECURSIVE EndsCat(_, _, _, _)
RECURSIVE StarClosure(_, _, _, _)

\* The positions of s where a match of r that starts at a position of P ends.
Ends(r, s, P) ==
    CASE r.t = "cls" ->
            {p + 1 : p \in {q \in P : q < Len(s) /\ s[q + 1] \in r.set}}
      [] r.t = "cat" -> EndsCat(r.xs, 1, s, P)
      [] r.t = "alt" -> UNION {Ends(r.xs[i], s, P) : i \in DOMAIN r.xs}
      [] r.t = "opt" -> P \cup Ends(r.r, s, P)
      [] r.t = "star" ->
            IF r.r.t = "cls"
            THEN \* a run of bytes of one class: every position from a position
                 \* of P on with no byte outside the class in between
                 LET outside == {k \in 1..Len(s) : s[k] \notin r.r.set}
                 IN  {q \in 0..Len(s) :
                        \E p \in P : p <= q /\ \A k \in outside : k <= p \/ k > q}
            ELSE StarClosure(r.r, s, P, P)

EndsCat(xs, i, s, P) ==
    IF i > Len(xs) \/ P = {} THEN P ELSE EndsCat(xs, i + 1, s, Ends(xs[i], s, P))

StarClosure(r, s, frontier, acc) ==
    LET new == Ends(r, s, frontier) \ acc
    IN  IF new = {} THEN acc ELSE StarClosure(r, s, new, acc \cup new)

\* regexp.MustCompile(`^r$`).MatchString(s): $ without the m flag is the end of text.
MatchString(r, s) == Len(s) \in Ends(r, s, {0})

\* regexp.MustCompile(`^r`).MatchString(s)
MatchStringPrefix(r, s) == Ends(r, s, {0}) # {}

(***************************************************************************)
(* strings and fmt.                                                        *)
(***************************************************************************)
\* strings.Count(s, "/") for a one-byte separator
Count(s, sep) == Cardinality({i \in 1..Len(s) : s[i] = sep})

\* strings.Index(s, sep) for a one-byte separator, as a position of s (0: none)
IndexByte(s, sep) ==
    IF \E i \in 1..Len(s) : s[i] = sep
    THEN CHOOSE i \in 1..Len(s) : s[i] = sep /\ \A j \in 1..(i - 1) : s[j] # sep
    ELSE 0

\* strings.Split(s, sep): all the pieces between the separators.
RECURSIVE Split(_, _)
Split(s, sep) ==
    LET i == IndexByte(s, sep)
    IN  IF i = 0 THEN <<s>>
        ELSE <<SubSeq(s, 1, i - 1)>> \o Split(SubSeq(s, i + 1, Len(s)), sep)

\* Mutant of SplitN: strings.Split, which does not stop after n pieces.
SplitN_everySeparator(s, sep, n) == Split(s, sep)

\* strings.SplitN(s, sep, n) for n >= 1: at most n pieces, the last one the
\* unsplit remainder.
RECURSIVE SplitN(_, _, _)
SplitN(s, sep, n) ==
    LET i == IndexByte(s, sep)
    IN  IF n <= 1 \/ i = 0 THEN <<s>>
        ELSE <<SubSeq(s, 1, i - 1)>> \o SplitN(SubSeq(s, i + 1, Len(s)), sep, n - 1)

\* fmt's %d of a non-negative int
RECURSIVE FormatInt(_)
FormatInt(n) ==
    LET d == <<"0","1","2","3","4","5","6","7","8","9">>[(n % 10) + 1]
    IN  IF n < 10 THEN <<d>> ELSE FormatInt(n \div 10) \o <<d>>

\* strings.Join(messages, sep)
RECURSIVE Join(_, _)
Join(messages, sep) ==
    IF messages = <<>> THEN <<>>
    ELSE IF Len(messages) = 1 THEN messages[1]
    ELSE messages[1] \o sep \o Join(Tail(messages), sep)

\* An error value is its text; nil is NoError.
NoError == [isNil |-> TRUE, text |-> <<>>]

NewError(text) == [isNil |-> FALSE, text |-> text]

(***************************************************************************)
(* The texts of the source's string literals.                              *)
(***************************************************************************)
\* "; "
JoinSeparator ==
    <<";"," ">>

\* "invalid label key '"
FmtInvalidLabelKey ==
    <<"i","n","v","a","l","i","d"," ","l","a","b","e","l"," ","k","e","y"," ","'">>

\* "invalid label value for key '"
FmtInvalidLabelValueForKey ==
    <<"i","n","v","a","l","i","d"," ","l","a","b","e","l"," ","v","a","l","u","e"," ","f","o","r",
      " ","k","e","y"," ","'">>

\* "invalid annotation key '"
FmtInvalidAnnotationKey ==
    <<"i","n","v","a","l","i","d"," ","a","n","n","o","t","a","t","i","o","n"," ","k","e","y"," ",
      "'">>

\* "invalid annotation value for key '"
FmtInvalidAnnotationValueForKey ==
    <<"i","n","v","a","l","i","d"," ","a","n","n","o","t","a","t","i","o","n"," ","v","a","l","u",
      "e"," ","f","o","r"," ","k","e","y"," ","'">>

\* "': "
FmtQuoteColon ==
    <<"'",":"," ">>

\* "invalid prefix: "
FmtInvalidPrefix ==
    <<"i","n","v","a","l","i","d"," ","p","r","e","f","i","x",":"," ">>

\* "invalid name: "
FmtInvalidName ==
    <<"i","n","v","a","l","i","d"," ","n","a","m","e",":"," ">>

\* "invalid name part: "
FmtInvalidNamePart ==
    <<"i","n","v","a","l","i","d"," ","n","a","m","e"," ","p","a","r","t",":"," ">>

\* "invalid value: "
FmtInvalidValue ==
    <<"i","n","v","a","l","i","d"," ","v","a","l","u","e",":"," ">>

\* "metadata.name must be between 1 and 253 characters: "
FmtMetadataNameLength ==
    <<"m","e","t","a","d","a","t","a",".","n","a","m","e"," ","m","u","s","t"," ","b","e"," ","b",
      "e","t","w","e","e","n"," ","1"," ","a","n","d"," ","2","5","3"," ","c","h","a","r","a","c",
      "t","e","r","s",":"," ">>

\* "input exceeds maximum length of "
FmtInputExceedsHead ==
    <<"i","n","p","u","t"," ","e","x","c","e","e","d","s"," ","m","a","x","i","m","u","m"," ","l",
      "e","n","g","t","h"," ","o","f"," ">>

\* " characters"
FmtInputExceedsTail ==
    <<" ","c","h","a","r","a","c","t","e","r","s">>

\* "API group is invalid: "
FmtAPIGroupInvalid ==
    <<"A","P","I"," ","g","r","o","u","p"," ","i","s"," ","i","n","v","a","l","i","d",":"," ">>

\* "label key must not be empty"
MsgLabelKeyEmpty ==
    <<"l","a","b","e","l"," ","k","e","y"," ","m","u","s","t"," ","n","o","t"," ","b","e"," ","e",
      "m","p","t","y">>

\* "label or annotation key must not be empty"
MsgLabelOrAnnotationKeyEmpty ==
    <<"l","a","b","e","l"," ","o","r"," ","a","n","n","o","t","a","t","i","o","n"," ","k","e","y",
      " ","m","u","s","t"," ","n","o","t"," ","b","e"," ","e","m","p","t","y">>

\* "label exceeds maximum length of 63 characters"
MsgLabelTooLong ==
    <<"l","a","b","e","l"," ","e","x","c","e","e","d","s"," ","m","a","x","i","m","u","m"," ","l",
      "e","n","g","t","h"," ","o","f"," ","6","3"," ","c","h","a","r","a","c","t","e","r","s">>

\* "label must match DNS label format (alphanumeric, hyphens, max 63 characters, must start and end with alphanumeric)"
MsgLabelFormat ==
    <<"l","a","b","e","l"," ","m","u","s","t"," ","m","a","t","c","h"," ","D","N","S"," ","l","a",
      "b","e","l"," ","f","o","r","m","a","t"," ","(","a","l","p","h","a","n","u","m","e","r","i",
      "c",","," ","h","y","p","h","e","n","s",","," ","m","a","x"," ","6","3"," ","c","h","a","r",
      "a","c","t","e","r","s",","," ","m","u","s","t"," ","s","t","a","r","t"," ","a","n","d"," ",
      "e","n","d"," ","w","i","t","h"," ","a","l","p","h","a","n","u","m","e","r","i","c",")">>

\* "label must match DNS label format (alphanumeric, hyphens, periods, max 63 characters)"
MsgLabelFormatApiVersion ==
    <<"l","a","b","e","l"," ","m","u","s","t"," ","m","a","t","c","h"," ","D","N","S"," ","l","a",
      "b","e","l"," ","f","o","r","m","a","t"," ","(","a","l","p","h","a","n","u","m","e","r","i",
      "c",","," ","h","y","p","h","e","n","s",","," ","p","e","r","i","o","d","s",","," ","m","a",
      "x"," ","6","3"," ","c","h","a","r","a","c","t","e","r","s",")">>

\* "subdomain exceeds maximum length of 253 characters"
MsgSubdomainTooLong ==
    <<"s","u","b","d","o","m","a","i","n"," ","e","x","c","e","e","d","s"," ","m","a","x","i","m",
      "u","m"," ","l","e","n","g","t","h"," ","o","f"," ","2","5","3"," ","c","h","a","r","a","c",
      "t","e","r","s">>

\* "subdomain must match DNS subdomain format (lowercase alphanumeric, `-`, `.`, max 253 characters, must start and end with alphanumeric)"
MsgSubdomainFormat ==
    <<"s","u","b","d","o","m","a","i","n"," ","m","u","s","t"," ","m","a","t","c","h"," ","D","N",
      "S"," ","s","u","b","d","o","m","a","i","n"," ","f","o","r","m","a","t"," ","(","l","o","w",
      "e","r","c","a","s","e"," ","a","l","p","h","a","n","u","m","e","r","i","c",","," ","0x60",
      "-","0x60",","," ","0x60",".","0x60",","," ","m","a","x"," ","2","5","3"," ","c","h","a","r",
      "a","c","t","e","r","s",","," ","m","u","s","t"," ","s","t","a","r","t"," ","a","n","d"," ",
      "e","n","d"," ","w","i","t","h"," ","a","l","p","h","a","n","u","m","e","r","i","c",")">>

\* "name part exceeds maximum length of 63 characters"
MsgNamePartTooLong ==
    <<"n","a","m","e"," ","p","a","r","t"," ","e","x","c","e","e","d","s"," ","m","a","x","i","m",
      "u","m"," ","l","e","n","g","t","h"," ","o","f"," ","6","3"," ","c","h","a","r","a","c","t",
      "e","r","s">>

\* "name part must consist of alphanumeric characters, '-', '_', or '.', and must start and end with an alphanumeric character"
MsgNamePartFormat ==
    <<"n","a","m","e"," ","p","a","r","t"," ","m","u","s","t"," ","c","o","n","s","i","s","t"," ",
      "o","f"," ","a","l","p","h","a","n","u","m","e","r","i","c"," ","c","h","a","r","a","c","t",
      "e","r","s",","," ","'","-","'",","," ","'","_","'",","," ","o","r"," ","'",".","'",","," ",
      "a","n","d"," ","m","u","s","t"," ","s","t","a","r","t"," ","a","n","d"," ","e","n","d"," ",
      "w","i","t","h"," ","a","n"," ","a","l","p","h","a","n","u","m","e","r","i","c"," ","c","h",
      "a","r","a","c","t","e","r">>

\* "label value exceeds maximum length of 63 characters"
MsgLabelValueTooLong ==
    <<"l","a","b","e","l"," ","v","a","l","u","e"," ","e","x","c","e","e","d","s"," ","m","a","x",
      "i","m","u","m"," ","l","e","n","g","t","h"," ","o","f"," ","6","3"," ","c","h","a","r","a",
      "c","t","e","r","s">>

\* "label value must consist of alphanumeric characters, '-', '.', and must start and end with an alphanumeric character"
MsgLabelValueFormat ==
    <<"l","a","b","e","l"," ","v","a","l","u","e"," ","m","u","s","t"," ","c","o","n","s","i","s",
      "t"," ","o","f"," ","a","l","p","h","a","n","u","m","e","r","i","c"," ","c","h","a","r","a",
      "c","t","e","r","s",","," ","'","-","'",","," ","'",".","'",","," ","a","n","d"," ","m","u",
      "s","t"," ","s","t","a","r","t"," ","a","n","d"," ","e","n","d"," ","w","i","t","h"," ","a",
      "n"," ","a","l","p","h","a","n","u","m","e","r","i","c"," ","c","h","a","r","a","c","t","e",
      "r">>

\* "annotation value must be a valid UTF-8 string"
MsgAnnotationValueUTF8 ==
    <<"a","n","n","o","t","a","t","i","o","n"," ","v","a","l","u","e"," ","m","u","s","t"," ","b",
      "e"," ","a"," ","v","a","l","i","d"," ","U","T","F","-","8"," ","s","t","r","i","n","g">>

\* "input cannot be empty"
MsgInputEmpty ==
    <<"i","n","p","u","t"," ","c","a","n","n","o","t"," ","b","e"," ","e","m","p","t","y">>

\* "kind cannot be empty"
MsgKindEmpty ==
    <<"k","i","n","d"," ","c","a","n","n","o","t"," ","b","e"," ","e","m","p","t","y">>

\* "input contains invalid characters; only alphanumeric characters are allowed"
MsgNotAlphanumeric ==
    <<"i","n","p","u","t"," ","c","o","n","t","a","i","n","s"," ","i","n","v","a","l","i","d"," ",
      "c","h","a","r","a","c","t","e","r","s",";"," ","o","n","l","y"," ","a","l","p","h","a","n",
      "u","m","e","r","i","c"," ","c","h","a","r","a","c","t","e","r","s"," ","a","r","e"," ","a",
      "l","l","o","w","e","d">>

\* "input must start with an uppercase letter"
MsgNotUppercaseStart ==
    <<"i","n","p","u","t"," ","m","u","s","t"," ","s","t","a","r","t"," ","w","i","t","h"," ","a",
      "n"," ","u","p","p","e","r","c","a","s","e"," ","l","e","t","t","e","r">>

\* "apiVersion cannot be empty"
MsgApiVersionEmpty ==
    <<"a","p","i","V","e","r","s","i","o","n"," ","c","a","n","n","o","t"," ","b","e"," ","e","m",
      "p","t","y">>

\* "input contains invalid characters; only alphanumeric, hyphen (-), and slash (/) are allowed"
MsgApiVersionChars ==
    <<"i","n","p","u","t"," ","c","o","n","t","a","i","n","s"," ","i","n","v","a","l","i","d"," ",
      "c","h","a","r","a","c","t","e","r","s",";"," ","o","n","l","y"," ","a","l","p","h","a","n",
      "u","m","e","r","i","c",","," ","h","y","p","h","e","n"," ","(","-",")",","," ","a","n","d",
      " ","s","l","a","s","h"," ","(","/",")"," ","a","r","e"," ","a","l","l","o","w","e","d">>

\* "input contains more than one slash (/); only one slash is allowed"
MsgApiVersionSlashes ==
    <<"i","n","p","u","t"," ","c","o","n","t","a","i","n","s"," ","m","o","r","e"," ","t","h","a",
      "n"," ","o","n","e"," ","s","l","a","s","h"," ","(","/",")",";"," ","o","n","l","y"," ","o",
      "n","e"," ","s","l","a","s","h"," ","i","s"," ","a","l","l","o","w","e","d">>

\* "core API version is invalid; must match pattern `v\d+` or `v\d+(alpha|beta)\d+`"
MsgCoreVersionInvalid ==
    <<"c","o","r","e"," ","A","P","I"," ","v","e","r","s","i","o","n"," ","i","s"," ","i","n","v",
      "a","l","i","d",";"," ","m","u","s","t"," ","m","a","t","c","h"," ","p","a","t","t","e","r",
      "n"," ","0x60","v","\\","d","+","0x60"," ","o","r"," ","0x60","v","\\","d","+","(","a","l",
      "p","h","a","|","b","e","t","a",")","\\","d","+","0x60">>

\* "API version is invalid; must match pattern `v\d+` or `v\d+(alpha|beta)\d+`"
MsgAPIVersionInvalid ==
    <<"A","P","I"," ","v","e","r","s","i","o","n"," ","i","s"," ","i","n","v","a","l","i","d",";",
      " ","m","u","s","t"," ","m","a","t","c","h"," ","p","a","t","t","e","r","n"," ","0x60","v",
      "\\","d","+","0x60"," ","o","r"," ","0x60","v","\\","d","+","(","a","l","p","h","a","|","b",
      "e","t","a",")","\\","d","+","0x60">>

\* "apiVersion has an invalid format; expected `group/version` or `version`"
MsgApiVersionFormat ==
    <<"a","p","i","V","e","r","s","i","o","n"," ","h","a","s"," ","a","n"," ","i","n","v","a","l",
      "i","d"," ","f","o","r","m","a","t",";"," ","e","x","p","e","c","t","e","d"," ","0x60","g",
      "r","o","u","p","/","v","e","r","s","i","o","n","0x60"," ","o","r"," ","0x60","v","e","r","s",
      "i","o","n","0x60">>

(***************************************************************************)
(* The length limits the source writes as literals.                        *)
(***************************************************************************)
DNSLabelMaxLength == 63

DNSSubdomainMaxLength == 253

NamePartMaxLength == 63

LabelValueMaxLength == 63

MetadataNameMaxLength == 253

KindMaxLength == 63

ApiVersionMaxLength == 63

Alnum == Lower \cup Upper \cup Digit

LowerAlnum == Lower \cup Digit

(***************************************************************************)
(* The shared tail of the validators that collect a slice of errors.       *)
(***************************************************************************)
\* JoinErrors: the texts of errs joined by "; " into one new error.
JoinErrors(errs) == NewError(Join([i \in 1..Len(errs) |-> errs[i].text], JoinSeparator))

\* if len(errs) > 0 { return JoinErrors(errs) }; return nil
ReturnErrs(errs) == IF Len(errs) > 0 THEN JoinErrors(errs) ELSE NoError

\* append(errs, err) when err != nil
AppendIfError(errs, err) == IF err.isNil THEN errs ELSE Append(errs, err)

(***************************************************************************)
(* The labels program (src/unnamed/part_000).  metadata-annotations.go     *)
(* repeats ValidateDNSLabel and ValidateDNSSubdomain byte for byte.        *)
(***************************************************************************)
\* `^[a-zA-Z0-9]([-a-zA-Z0-9]*[a-zA-Z0-9])?$`
labelPattern ==
    Cat(<<Cls(Alnum), Opt(Cat(<<Star(Cls({"-"} \cup Alnum)), Cls(Alnum)>>))>>)

\* Mutant of ValidateDNSLabel: the pattern is tried before the length.
ValidateDNSLabel_patternFirst(label) ==
    IF ~MatchString(labelPattern, label) THEN NewError(MsgLabelFormat)
    ELSE IF Len(label) > DNSLabelMaxLength THEN NewError(MsgLabelTooLong)
    ELSE NoError

ValidateDNSLabel(label) ==
    IF Len(label) > DNSLabelMaxLength THEN NewError(MsgLabelTooLong)
    ELSE IF ~MatchString(labelPattern, label) THEN NewError(MsgLabelFormat)
    ELSE NoError

\* `^[a-z0-9]([-a-z0-9]*[a-z0-9])?$`: the pattern of a single label, no dot
subdomainPattern ==
    Cat(<<Cls(LowerAlnum), Opt(Cat(<<Star(Cls({"-"} \cup LowerAlnum)), Cls(LowerAlnum)>>))>>)

ValidateDNSSubdomain(subdomain) ==
    IF Len(subdomain) > DNSSubdomainMaxLength THEN NewError(MsgSubdomainTooLong)
    ELSE IF ~MatchString(subdomainPattern, subdomain) THEN NewError(MsgSubdomainFormat)
    ELSE NoError

ValidateLabelKey(key) ==
    LET parts == SplitN(key, "/", 2)
    IN  IF Len(parts) = 2
        THEN LET prefixErr == ValidateDNSSubdomain(parts[1])
                 nameErr == ValidateDNSLabel(parts[2])
             IN  IF ~prefixErr.isNil THEN NewError(FmtInvalidPrefix \o prefixErr.text)
                 ELSE IF ~nameErr.isNil THEN NewError(FmtInvalidName \o nameErr.text)
                 ELSE NoError
        ELSE IF Len(parts) = 1
        THEN LET nameErr == ValidateDNSLabel(parts[1])
             IN  IF ~nameErr.isNil THEN NewError(FmtInvalidName \o nameErr.text)
                 ELSE NoError
        ELSE NewError(MsgLabelKeyEmpty)

ValidateLabelValue(value) ==
    IF value = <<>> THEN NoError
    ELSE LET err == ValidateDNSLabel(value)
         IN  IF ~err.isNil THEN NewError(FmtInvalidValue \o err.text) ELSE NoError

\* One pass of the loop body of ValidateMetadataLabels for the entry at key.
LabelsEntry(errs, key, value) ==
    LET keyErr == ValidateLabelKey(key)
        valueErr == ValidateLabelValue(value)
        afterKey ==
            IF ~keyErr.isNil
            THEN Append(errs, NewError(FmtInvalidLabelKey \o key \o FmtQuoteColon \o keyErr.text))
            ELSE errs
    IN  IF ~valueErr.isNil
        THEN Append(afterKey,
                    NewError(FmtInvalidLabelValueForKey \o key \o FmtQuoteColon \o valueErr.text))
        ELSE afterKey

\* Mutant of LabelsLoop: the loop ends at the first entry that fails.
RECURSIVE LabelsLoop_stopAtFirstError(_, _, _)
LabelsLoop_stopAtFirstError(errs, labels, order) ==
    IF order = <<>> \/ errs # <<>> THEN errs
    ELSE LabelsLoop_stopAtFirstError(LabelsEntry(errs, Head(order), labels[Head(order)]),
                                     labels, Tail(order))

\* for key, value := range labels, the keys visited in the order the runtime
\* picked: the slice errs after the loop.
RECURSIVE LabelsLoop(_, _, _)
LabelsLoop(errs, labels, order) ==
    IF order = <<>> THEN errs
    ELSE LabelsLoop(LabelsEntry(errs, Head(order), labels[Head(order)]), labels, Tail(order))

ValidateMetadataLabels(labels, order) == ReturnErrs(LabelsLoop(<<>>, labels, order))

(***************************************************************************)
(* The annotations program (src/metadata-annotations.go).                  *)
(***************************************************************************)
\* unicode/utf8: the length of the sequence a lead byte starts (0: no lead byte)
Utf8Size(v) ==
    IF v >= 194 /\ v <= 223 THEN 2
    ELSE IF v >= 224 /\ v <= 239 THEN 3
    ELSE IF v >= 240 /\ v <= 244 THEN 4
    ELSE 0

\* unicode/utf8: the values the second byte may take after lead byte v
Utf8Second(v) ==
    (IF v = 224 THEN 160 ELSE IF v = 240 THEN 144 ELSE 128)
        .. (IF v = 237 THEN 159 ELSE IF v = 244 THEN 143 ELSE 191)

\* utf8.ValidString(s): the ASCII bytes before the first byte >= 0x80 are
\* skipped, the sequence that byte starts is checked, and so on after it.
RECURSIVE ValidString(_)
ValidString(s) ==
    IF \A i \in 1..Len(s) : IsASCII(s[i]) THEN TRUE
    ELSE LET i == CHOOSE j \in 1..Len(s) : ~IsASCII(s[j]) /\ \A k \in 1..(j - 1) : IsASCII(s[k])
             size == Utf8Size(ByteValue[s[i]])
         IN  /\ size # 0
             /\ Len(s) >= i + size - 1
             /\ ~IsASCII(s[i + 1])
             /\ ByteValue[s[i + 1]] \in Utf8Second(ByteValue[s[i]])
             /\ \A k \in (i + 2)..(i + size - 1) :
                    ~IsASCII(s[k]) /\ ByteValue[s[k]] \in 128..191
             /\ ValidString(SubSeq(s, i + size, Len(s)))

ValidateAnnotationValue(value) ==
    IF ~ValidString(value) THEN NewError(MsgAnnotationValueUTF8) ELSE NoError

ValidateLabelKey_annotations(key) ==
    LET parts == SplitN(key, "/", 2)
    IN  IF Len(parts) = 2
        THEN LET prefixErr == ValidateDNSSubdomain(parts[1])
                 nameErr == ValidateDNSLabel(parts[2])
             IN  IF ~prefixErr.isNil THEN NewError(FmtInvalidPrefix \o prefixErr.text)
                 ELSE IF ~nameErr.isNil THEN NewError(FmtInvalidName \o nameErr.text)
                 ELSE NoError
        ELSE IF Len(parts) = 1
        THEN LET nameErr == ValidateDNSLabel(parts[1])
             IN  IF ~nameErr.isNil THEN NewError(FmtInvalidName \o nameErr.text)
                 ELSE NoError
        ELSE NewError(MsgLabelOrAnnotationKeyEmpty)

AnnotationsEntry(errs, key, value) ==
    LET keyErr == ValidateLabelKey_annotations(key)
        valueErr == ValidateAnnotationValue(value)
        afterKey ==
            IF ~keyErr.isNil
            THEN Append(errs,
                        NewError(FmtInvalidAnnotationKey \o key \o FmtQuoteColon \o keyErr.text))
            ELSE errs
    IN  IF ~valueErr.isNil
        THEN Append(afterKey,
                    NewError(FmtInvalidAnnotationValueForKey \o key \o FmtQuoteColon
                                 \o valueErr.text))
        ELSE afterKey

\* Mutant of AnnotationsLoop: the loop ends at the first entry that fails.
RECURSIVE AnnotationsLoop_stopAtFirstError(_, _, _)
AnnotationsLoop_stopAtFirstError(errs, annotations, order) ==
    IF order = <<>> \/ errs # <<>> THEN errs
    ELSE AnnotationsLoop_stopAtFirstError(
             AnnotationsEntry(errs, Head(order), annotations[Head(order)]),
             annotations, Tail(order))

\* for key, value := range annotations: the slice errs after the loop.
RECURSIVE AnnotationsLoop(_, _, _)
AnnotationsLoop(errs, annotations, order) ==
    IF order = <<>> THEN errs
    ELSE AnnotationsLoop(AnnotationsEntry(errs, Head(order), annotations[Head(order)]),
                         annotations, Tail(order))

ValidateMetadataAnnotations(annotations, order) ==
    ReturnErrs(AnnotationsLoop(<<>>, annotations, order))

(***************************************************************************)
(* The updated key validator (src/new-subdomain-name.go).                  *)
(***************************************************************************)
\* `^[a-z0-9]([-a-z0-9]*[a-z0-9])?(\.[a-z0-9]([-a-z0-9]*[a-z0-9])?)*$`
subdomainPattern_new ==
    Cat(<<Cls(LowerAlnum),
          Opt(Cat(<<Star(Cls({"-"} \cup LowerAlnum)), Cls(LowerAlnum)>>)),
          Star(Cat(<<Cls({"."}), Cls(LowerAlnum),
                     Opt(Cat(<<Star(Cls({"-"} \cup LowerAlnum)), Cls(LowerAlnum)>>))>>))>>)

ValidateDNSSubdomain_new(subdomain) ==
    IF Len(subdomain) > DNSSubdomainMaxLength THEN NewError(MsgSubdomainTooLong)
    ELSE IF ~MatchString(subdomainPattern_new, subdomain) THEN NewError(MsgSubdomainFormat)
    ELSE NoError

\* `^([A-Za-z0-9][-A-Za-z0-9_.]*)?[A-Za-z0-9]$`
namePattern ==
    Cat(<<Opt(Cat(<<Cls(Alnum), Star(Cls({"-", "_", "."} \cup Alnum))>>)), Cls(Alnum)>>)

ValidateLabelOrAnnotationNamePart(name) ==
    IF Len(name) > NamePartMaxLength THEN NewError(MsgNamePartTooLong)
    ELSE IF ~MatchString(namePattern, name) THEN NewError(MsgNamePartFormat)
    ELSE NoError

ValidateLabelOrAnnotationKey(key) ==
    LET parts == SplitN(key, "/", 2)
    IN  IF Len(parts) = 2
        THEN LET prefixErr == ValidateDNSSubdomain_new(parts[1])
                 nameErr == ValidateLabelOrAnnotationNamePart(parts[2])
             IN  IF ~prefixErr.isNil THEN NewError(FmtInvalidPrefix \o prefixErr.text)
                 ELSE IF ~nameErr.isNil THEN NewError(FmtInvalidNamePart \o nameErr.text)
                 ELSE NoError
        ELSE IF Len(parts) = 1
        THEN LET nameErr == ValidateLabelOrAnnotationNamePart(parts[1])
             IN  IF ~nameErr.isNil THEN NewError(FmtInvalidNamePart \o nameErr.text)
                 ELSE NoError
        ELSE NewError(MsgLabelOrAnnotationKeyEmpty)

(***************************************************************************)
(* The stand-alone label value validator (src/unnamed/part_002).           *)
(***************************************************************************)
\* `^[A-Za-z0-9]([-A-Za-z0-9.]*[A-Za-z0-9])?$`
labelValuePattern ==
    Cat(<<Cls(Alnum), Opt(Cat(<<Star(Cls({"-", "."} \cup Alnum)), Cls(Alnum)>>))>>)

ValidateLabelValue_part002(value) ==
    IF Len(value) > LabelValueMaxLength THEN NewError(MsgLabelValueTooLong)
    ELSE IF ~MatchString(labelValuePattern, value) THEN NewError(MsgLabelValueFormat)
    ELSE NoError

(***************************************************************************)
(* metadata.name (src/metdata-name.go).                                    *)
(***************************************************************************)
ValidateLength_metadataName(input, maxLength) ==
    IF Len(input) = 0 THEN NewError(MsgInputEmpty)
    ELSE IF Len(input) > maxLength
    THEN NewError(FmtInputExceedsHead \o FormatInt(maxLength) \o FmtInputExceedsTail)
    ELSE NoError

\* The draft of this file: the single-label pattern, and no length check.
ValidateDNSSubdomain_metadataName(subdomain) ==
    IF ~MatchString(subdomainPattern, subdomain) THEN NewError(MsgSubdomainFormat)
    ELSE NoError

\* The slice errs of ValidateMetadataName when it reaches its return.
MetadataNameErrs(name) ==
    LET lengthErr == ValidateLength_metadataName(name, MetadataNameMaxLength)
        afterLength ==
            IF ~lengthErr.isNil
            THEN <<NewError(FmtMetadataNameLength \o lengthErr.text)>>
            ELSE <<>>
    IN  AppendIfError(afterLength, ValidateDNSSubdomain_metadataName(name))

ValidateMetadataName(name) == ReturnErrs(MetadataNameErrs(name))

(***************************************************************************)
(* kind (src/kind.go).                                                     *)
(***************************************************************************)
\* kind.go and apiVersion.go hold the same ValidateLength, without the empty check.
ValidateLength(input, maxLength) ==
    IF Len(input) > maxLength
    THEN NewError(FmtInputExceedsHead \o FormatInt(maxLength) \o FmtInputExceedsTail)
    ELSE NoError

\* `^[a-zA-Z0-9]+$`
alphanumericPattern == Plus(Cls(Alnum))

ValidateAlphanumeric(input) ==
    IF ~MatchString(alphanumericPattern, input) THEN NewError(MsgNotAlphanumeric) ELSE NoError

\* strings.ToUpper(string(input[0])) is a prefix of input: an ASCII byte is its
\* own upper case unless it is a lower-case letter; a byte >= 0x80 converts to
\* a two-byte rune that none of the modelled inputs starts with.
HasUpperPrefix(input) == IsASCII(input[1]) /\ input[1] \notin Lower

\* Mutant of ValidateStartsWithUppercase: only the ToUpper comparison, which a
\* digit passes.
ValidateStartsWithUppercase_toUpperOnly(input) ==
    IF Len(input) = 0 THEN NewError(MsgInputEmpty)
    ELSE IF ~HasUpperPrefix(input) THEN NewError(MsgNotUppercaseStart)
    ELSE NoError

ValidateStartsWithUppercase(input) ==
    IF Len(input) = 0 THEN NewError(MsgInputEmpty)
    ELSE IF ~HasUpperPrefix(input) \/ ~MatchStringPrefix(Cls(Upper), input)
    THEN NewError(MsgNotUppercaseStart)
    ELSE NoError

KindErrs(kind) ==
    LET e1 == IF kind = <<>> THEN <<NewError(MsgKindEmpty)>> ELSE <<>>
        e2 == AppendIfError(e1, ValidateLength(kind, KindMaxLength))
        e3 == AppendIfError(e2, ValidateAlphanumeric(kind))
    IN  AppendIfError(e3, ValidateStartsWithUppercase(kind))

ValidateKind(kind) == ReturnErrs(KindErrs(kind))

(***************************************************************************)
(* apiVersion (src/apiVersion.go).                                         *)
(***************************************************************************)
\* `^[a-zA-Z0-9/-]+$`
validChars == Plus(Cls({"/", "-"} \cup Alnum))

ValidateApiVersionAllowedCharacters(input) ==
    IF ~MatchString(validChars, input) THEN NewError(MsgApiVersionChars)
    ELSE IF Count(input, "/") > 1 THEN NewError(MsgApiVersionSlashes)
    ELSE NoError

\* `^v\d+((alpha|beta)\d+)?$`
versionPattern ==
    Cat(<<Cls({"v"}), Plus(Cls(Digit)),
          Opt(Cat(<<Alt(<<Lit(<<"a","l","p","h","a">>), Lit(<<"b","e","t","a">>)>>),
                    Plus(Cls(Digit))>>))>>)

\* Mutant of isValidVersion: the pattern without its closing $.
isValidVersion_unanchored(version) == MatchStringPrefix(versionPattern, version)

isValidVersion(version) == MatchString(versionPattern, version)

ValidateDNSLabel_apiVersion(label) ==
    IF Len(label) > DNSLabelMaxLength THEN NewError(MsgLabelTooLong)
    ELSE IF ~MatchString(labelPattern, label) THEN NewError(MsgLabelFormatApiVersion)
    ELSE NoError

ValidateGroupVersionFormat(apiVersion) ==
    LET parts == Split(apiVersion, "/")
    IN  IF Len(parts) = 1
        THEN IF ~isValidVersion(parts[1]) THEN NewError(MsgCoreVersionInvalid) ELSE NoError
        ELSE IF Len(parts) = 2
        THEN LET groupErr == ValidateDNSLabel_apiVersion(parts[1])
             IN  IF ~groupErr.isNil THEN NewError(FmtAPIGroupInvalid \o groupErr.text)
                 ELSE IF ~isValidVersion(parts[2]) THEN NewError(MsgAPIVersionInvalid)
                 ELSE NoError
        ELSE NewError(MsgApiVersionFormat)

ApiVersionErrs(apiVersion) ==
    LET e1 == IF apiVersion = <<>> THEN <<NewError(MsgApiVersionEmpty)>> ELSE <<>>
        e2 == AppendIfError(e1, ValidateLength(apiVersion, ApiVersionMaxLength))
        e3 == AppendIfError(e2, ValidateApiVersionAllowedCharacters(apiVersion))
    IN  AppendIfError(e3, ValidateGroupVersionFormat(apiVersion))

ValidateApiVersion(apiVersion) == ReturnErrs(ApiVersionErrs(apiVersion))

(***************************************************************************)
(* Strings of the test tables of the source and of the specification.      *)
(***************************************************************************)
\* "app.kubernetes.io/name"
KeyAppKubernetesIoName ==
    <<"a","p","p",".","k","u","b","e","r","n","e","t","e","s",".","i","o","/","n","a","m","e">>

\* "app.kubernetes.io/role/extra"
KeyAppKubernetesIoRoleExtra ==
    <<"a","p","p",".","k","u","b","e","r","n","e","t","e","s",".","i","o","/","r","o","l","e","/",
      "e","x","t","r","a">>

\* "App.kubernetes.io/Name"
KeyUppercase ==
    <<"A","p","p",".","k","u","b","e","r","n","e","t","e","s",".","i","o","/","N","a","m","e">>

\* "invalid_key"
KeyUnderscore ==
    <<"i","n","v","a","l","i","d","_","k","e","y">>

\* "example.com/123"
KeyExampleCom123 ==
    <<"e","x","a","m","p","l","e",".","c","o","m","/","1","2","3">>

\* "a/b/c"
KeyABC ==
    <<"a","/","b","/","c">>

\* "my-app.example.com"
NameMyAppExampleCom ==
    <<"m","y","-","a","p","p",".","e","x","a","m","p","l","e",".","c","o","m">>

\* "My-App"
ValueMyApp ==
    <<"M","y","-","A","p","p">>

\* "v1.2"
ValueV12 ==
    <<"v","1",".","2">>

\* "v1"
ApiV1 ==
    <<"v","1">>

\* "apps/v1"
ApiAppsV1 ==
    <<"a","p","p","s","/","v","1">>

\* "apps/v1beta1"
ApiAppsV1beta1 ==
    <<"a","p","p","s","/","v","1","b","e","t","a","1">>

\* "apps//v1"
ApiAppsDoubleSlash ==
    <<"a","p","p","s","/","/","v","1">>

\* "Apps/v1"
ApiUpperGroup ==
    <<"A","p","p","s","/","v","1">>

\* "apps/v1.1"
ApiPeriod ==
    <<"a","p","p","s","/","v","1",".","1">>

\* "v1alpha1"
ApiV1alpha1 ==
    <<"v","1","a","l","p","h","a","1">>

\* "v1beta"
ApiV1beta ==
    <<"v","1","b","e","t","a">>

\* "v1gamma1"
ApiV1gamma1 ==
    <<"v","1","g","a","m","m","a","1">>

\* "valpha1"
ApiValpha1 ==
    <<"v","a","l","p","h","a","1">>

\* "a-b/v2"
ApiHyphenGroup ==
    <<"a","-","b","/","v","2">>

\* "-a/v1"
ApiLeadingHyphenGroup ==
    <<"-","a","/","v","1">>

\* "Pod"
KindPod ==
    <<"P","o","d">>

\* "deployment"
KindDeployment ==
    <<"d","e","p","l","o","y","m","e","n","t">>

\* "123Pod"
Kind123Pod ==
    <<"1","2","3","P","o","d">>

\* "Pod-Service"
KindPodService ==
    <<"P","o","d","-","S","e","r","v","i","c","e">>

\* "MyCustomResource"
KindMyCustomResource ==
    <<"M","y","C","u","s","t","o","m","R","e","s","o","u","r","c","e">>

\* "v12beta34"
ApiV12beta34 ==
    <<"v","1","2","b","e","t","a","3","4">>

\* "v1alpha1beta2"
ApiTwoStages ==
    <<"v","1","a","l","p","h","a","1","b","e","t","a","2">>

\* "V1"
ApiUpperV ==
    <<"V","1">>

\* "v1/apps"
ApiGroupAfterVersion ==
    <<"v","1","/","a","p","p","s">>

\* "apps/v1alpha"
ApiStageWithoutDigits ==
    <<"a","p","p","s","/","v","1","a","l","p","h","a">>

\* "a_b/v1"
ApiUnderscoreGroup ==
    <<"a","_","b","/","v","1">>

(***************************************************************************)
(* The inputs the callers pass: every string up to MaxLen bytes over the   *)
(* bytes that matter to the validator called, the strings of the source's  *)
(* own test tables, strings at and just past each length limit, and byte   *)
(* strings that are and are not UTF-8.  Maps hold up to MaxEntries keys.   *)
(***************************************************************************)
MaxLen == 4

MaxEntries == 2

StringsOver(alphabet) == UNION {[1..n -> alphabet] : n \in 0..MaxLen}

KeyAlphabet == {"a", "A", "1", "-", ".", "_", "/"}

ValueAlphabet == {"a", "A", "1", "-", ".", "_"}

KindAlphabet == {"a", "A", "1", "-"}

ApiVersionAlphabet == {"v", "1", "a", "-", "/", "."}

Scenarios ==
    {KeyAppKubernetesIoName, KeyAppKubernetesIoRoleExtra, KeyUppercase, KeyUnderscore,
     KeyExampleCom123, KeyABC, NameMyAppExampleCom, ValueMyApp, ValueV12, ApiV1, ApiAppsV1,
     ApiAppsV1beta1, ApiAppsDoubleSlash, ApiUpperGroup, ApiPeriod, ApiV1alpha1, ApiV1beta,
     ApiV1gamma1, ApiValpha1, ApiHyphenGroup, ApiLeadingHyphenGroup, KindPod, KindDeployment,
     Kind123Pod, KindPodService, KindMyCustomResource, ApiV12beta34, ApiTwoStages, ApiUpperV,
     ApiGroupAfterVersion, ApiStageWithoutDigits, ApiUnderscoreGroup}

Repeat(c, n) == [i \in 1..n |-> c]

\* A run of one byte, as long as a length limit or one byte longer, alone or
\* as the prefix or the name of a key.
LongStrings ==
    {h \o Repeat(c, n) \o t :
        h \in {<<>>, <<"a", "/">>, <<"_">>},
        c \in {"a", "A", "-"},
        n \in {DNSLabelMaxLength, DNSLabelMaxLength + 1,
               DNSSubdomainMaxLength, DNSSubdomainMaxLength + 1},
        t \in {<<>>, <<"/", "a">>}}

\* group/v1 with the longest group that fits the apiVersion limit, and one
\* byte more.
BoundaryApiVersions ==
    {Repeat("a", n) \o <<"/", "v", "1">> : n \in {ApiVersionMaxLength - 3, ApiVersionMaxLength - 2}}

ByteStrings ==
    {<<"0xFF", "0xFE">>, <<"0xC3", "0xA9">>, <<"a", "0xC3">>, <<"0xC3", "a">>,
     <<"0xA9">>, <<"A", "0xC3", "0xBF">>}

Inputs(alphabet) ==
    StringsOver(alphabet) \cup Scenarios \cup LongStrings \cup BoundaryApiVersions
        \cup ByteStrings

KeyInputs == Inputs(KeyAlphabet)

ValueInputs == Inputs(ValueAlphabet)

KindInputs == Inputs(KindAlphabet)

ApiVersionInputs == Inputs(ApiVersionAlphabet)

MapKeys ==
    {<<>>, <<"a">>, <<"a", "/", "b">>, <<"a", ".", "b", "/", "c">>, KeyABC, <<"a", "_", "b">>}

LabelValues == {<<>>, <<"a">>, <<"a", ".", "b">>}

AnnotationValues == {<<>>, <<"a">>, <<"0xFF", "0xFE">>}

Maps(values) ==
    UNION {[D -> values] : D \in {K \in SUBSET MapKeys : Cardinality(K) <= MaxEntries}}

LabelMaps == Maps(LabelValues)

AnnotationMaps == Maps(AnnotationValues)

\* The orders in which range may visit the keys of a map: Go leaves the order open.
Orders(m) ==
    LET n == Cardinality(DOMAIN m)
    IN  {o \in [1..n -> DOMAIN m] : \A i, j \in 1..n : i # j => o[i] # o[j]}

(***************************************************************************)
(* The state: the call a caller made last (the validator, its argument),   *)
(* what it returned, and what a second call with the same argument         *)
(* returned.                                                               *)
(***************************************************************************)
VARIABLES fn, arg, labels, calls, first, second

vars == <<fn, arg, labels, calls, first, second>>

\* What one call leaves behind: the order range visited the map in, the slice
\* errs at the return (empty for a validator that keeps none), the error returned.
Outcome(order, errs, ret) == [order |-> order, errs |-> errs, ret |-> ret]

NoOutcome == Outcome(<<>>, <<>>, NoError)

\* The outcomes a call of validator f can have.
Outcomes(f, s, m) ==
    CASE f = "ValidateMetadataName" ->
            {Outcome(<<>>, MetadataNameErrs(s), ValidateMetadataName(s))}
      [] f = "ValidateKind" -> {Outcome(<<>>, KindErrs(s), ValidateKind(s))}
      [] f = "ValidateApiVersion" -> {Outcome(<<>>, ApiVersionErrs(s), ValidateApiVersion(s))}
      [] f = "ValidateLabelKey" -> {Outcome(<<>>, <<>>, ValidateLabelKey(s))}
      [] f = "ValidateLabelKey_annotations" ->
            {Outcome(<<>>, <<>>, ValidateLabelKey_annotations(s))}
      [] f = "ValidateLabelOrAnnotationKey" ->
            {Outcome(<<>>, <<>>, ValidateLabelOrAnnotationKey(s))}
      [] f = "ValidateLabelValue" -> {Outcome(<<>>, <<>>, ValidateLabelValue(s))}
      [] f = "ValidateLabelValue_part002" ->
            {Outcome(<<>>, <<>>, ValidateLabelValue_part002(s))}
      [] f = "ValidateAnnotationValue" -> {Outcome(<<>>, <<>>, ValidateAnnotationValue(s))}
      [] f = "ValidateDNSLabel" -> {Outcome(<<>>, <<>>, ValidateDNSLabel(s))}
      [] f = "ValidateDNSSubdomain" -> {Outcome(<<>>, <<>>, ValidateDNSSubdomain(s))}
      [] f = "ValidateDNSSubdomain_new" -> {Outcome(<<>>, <<>>, ValidateDNSSubdomain_new(s))}
      [] f = "ValidateLabelOrAnnotationNamePart" ->
            {Outcome(<<>>, <<>>, ValidateLabelOrAnnotationNamePart(s))}
      [] f = "ValidateMetadataLabels" ->
            {Outcome(o, LabelsLoop(<<>>, m, o), ValidateMetadataLabels(m, o)) : o \in Orders(m)}
      [] f = "ValidateMetadataAnnotations" ->
            {Outcome(o, AnnotationsLoop(<<>>, m, o), ValidateMetadataAnnotations(m, o)) :
                o \in Orders(m)}

Init ==
    /\ fn = "none"
    /\ arg = <<>>
    /\ labels = <<>>
    /\ calls = 0
    /\ first = NoOutcome
    /\ second = NoOutcome

\* The first call of validator f on string s (or on map m) returns.
Returns(f, s, m) ==
    /\ fn' = f
    /\ arg' = s
    /\ labels' = m
    /\ calls' = 1
    /\ first' \in Outcomes(f, s, m)
    /\ second' = NoOutcome

CallValidateMetadataName ==
    /\ calls = 0
    /\ \E s \in KeyInputs : Returns("ValidateMetadataName", s, <<>>)

CallValidateKind ==
    /\ calls = 0
    /\ \E s \in KindInputs : Returns("ValidateKind", s, <<>>)

CallValidateApiVersion ==
    /\ calls = 0
    /\ \E s \in ApiVersionInputs : Returns("ValidateApiVersion", s, <<>>)

CallValidateLabelKey ==
    /\ calls = 0
    /\ \E s \in KeyInputs : Returns("ValidateLabelKey", s, <<>>)

CallValidateLabelKey_annotations ==
    /\ calls = 0
    /\ \E s \in KeyInputs : Returns("ValidateLabelKey_annotations", s, <<>>)

CallValidateLabelOrAnnotationKey ==
    /\ calls = 0
    /\ \E s \in KeyInputs : Returns("ValidateLabelOrAnnotationKey", s, <<>>)

CallValidateLabelValue ==
    /\ calls = 0
    /\ \E s \in ValueInputs : Returns("ValidateLabelValue", s, <<>>)

CallValidateLabelValue_part002 ==
    /\ calls = 0
    /\ \E s \in ValueInputs : Returns("ValidateLabelValue_part002", s, <<>>)

CallValidateAnnotationValue ==
    /\ calls = 0
    /\ \E s \in ValueInputs : Returns("ValidateAnnotationValue", s, <<>>)

CallValidateDNSLabel ==
    /\ calls = 0
    /\ \E s \in ValueInputs : Returns("ValidateDNSLabel", s, <<>>)

CallValidateDNSSubdomain ==
    /\ calls = 0
    /\ \E s \in KeyInputs : Returns("ValidateDNSSubdomain", s, <<>>)

CallValidateDNSSubdomain_new ==
    /\ calls = 0
    /\ \E s \in KeyInputs : Returns("ValidateDNSSubdomain_new", s, <<>>)

CallValidateLabelOrAnnotationNamePart ==
    /\ calls = 0
    /\ \E s \in ValueInputs : Returns("ValidateLabelOrAnnotationNamePart", s, <<>>)

CallValidateMetadataLabels ==
    /\ calls = 0
    /\ \E m \in LabelMaps : Returns("ValidateMetadataLabels", <<>>, m)

CallValidateMetadataAnnotations ==
    /\ calls = 0
    /\ \E m \in AnnotationMaps : Returns("ValidateMetadataAnnotations", <<>>, m)

\* The caller validates the same input a second time.
CallAgain ==
    /\ calls = 1
    /\ calls' = 2
    /\ second' \in Outcomes(fn, arg, labels)
    /\ UNCHANGED <<fn, arg, labels, first>>

\* The caller is done with the result: nothing of a call outlives it.
Discard ==
    /\ calls > 0
    /\ fn' = "none"
    /\ arg' = <<>>
    /\ labels' = <<>>
    /\ calls' = 0
    /\ first' = NoOutcome
    /\ second' = NoOutcome

Next ==
    \/ CallValidateMetadataName
    \/ CallValidateKind
    \/ CallValidateApiVersion
    \/ CallValidateLabelKey
    \/ CallValidateLabelKey_annotations
    \/ CallValidateLabelOrAnnotationKey
    \/ CallValidateLabelValue
    \/ CallValidateLabelValue_part002
    \/ CallValidateAnnotationValue
    \/ CallValidateDNSLabel
    \/ CallValidateDNSSubdomain
    \/ CallValidateDNSSubdomain_new
    \/ CallValidateLabelOrAnnotationNamePart
    \/ CallValidateMetadataLabels
    \/ CallValidateMetadataAnnotations
    \/ CallAgain
    \/ Discard

Spec == Init /\ [][Next]_vars

(***************************************************************************)
(* The grammars the specification states, written from its words and not   *)
(* from the patterns of the code: the properties below compare the two.    *)
(***************************************************************************)
Range(f) == {f[i] : i \in DOMAIN f}

\* pat occurs in text
Contains(text, pat) ==
    \E i \in 0..(Len(text) - Len(pat)) : SubSeq(text, i + 1, i + Len(pat)) = pat

\* at most max bytes, all of them in chars, the first and the last in ends
IsToken(s, max, chars, ends) ==
    /\ Len(s) >= 1
    /\ Len(s) <= max
    /\ \A i \in 1..Len(s) : s[i] \in chars
    /\ s[1] \in ends
    /\ s[Len(s)] \in ends

IsQualifiedNamePart(s) == IsToken(s, 63, Alnum \cup {"-", "_", "."}, Alnum)

IsDNSLabelGrammar(s) == IsToken(s, 63, Alnum \cup {"-"}, Alnum)

\* one or more dot-joined lower-case labels, at most 253 bytes in all
IsDNSSubdomainGrammar(s) ==
    /\ Len(s) >= 1
    /\ Len(s) <= 253
    /\ \A label \in Range(Split(s, ".")) :
          IsToken(label, 253, LowerAlnum \cup {"-"}, LowerAlnum)

IsQualifiedKey(key) ==
    LET slash == IndexByte(key, "/")
    IN  IF slash = 0 THEN IsQualifiedNamePart(key)
        ELSE /\ IsDNSSubdomainGrammar(SubSeq(key, 1, slash - 1))
             /\ IsQualifiedNamePart(SubSeq(key, slash + 1, Len(key)))

IsDigits(s) == Len(s) >= 1 /\ \A i \in 1..Len(s) : s[i] \in Digit

\* v<digits>, optionally followed by alpha<digits> or beta<digits>
IsVersionToken(s) ==
    /\ Len(s) >= 2
    /\ s[1] = "v"
    /\ \E i \in 2..Len(s) :
          /\ IsDigits(SubSeq(s, 2, i))
          /\ \/ i = Len(s)
             \/ \E j \in (i + 1)..(Len(s) - 1) :
                   /\ SubSeq(s, i + 1, j) \in {<<"a","l","p","h","a">>, <<"b","e","t","a">>}
                   /\ IsDigits(SubSeq(s, j + 1, Len(s)))

IsApiVersion(s) ==
    /\ Len(s) >= 1
    /\ Len(s) <= 63
    /\ \A i \in 1..Len(s) : s[i] \in Alnum \cup {"-", "/"}
    /\ Count(s, "/") <= 1
    /\ LET slash == IndexByte(s, "/")
       IN  IF slash = 0 THEN IsVersionToken(s)
           ELSE /\ IsDNSLabelGrammar(SubSeq(s, 1, slash - 1))
                /\ IsVersionToken(SubSeq(s, slash + 1, Len(s)))

IsKindName(s) ==
    /\ Len(s) >= 1
    /\ Len(s) <= 63
    /\ \A i \in 1..Len(s) : s[i] \in Alnum
    /\ s[1] \in Upper

IsLabelValueGrammar(s) == s = <<>> \/ IsToken(s, 63, Alnum \cup {"-", "."}, Alnum)

HasUppercase(s) == \E i \in 1..Len(s) : s[i] \in Upper

\* "... exceeds maximum length of <max> characters"
LengthExceededReason(max) ==
    <<"e","x","c","e","e","d","s"," ","m","a","x","i","m","u","m"," ",
      "l","e","n","g","t","h"," ","o","f"," ">> \o FormatInt(max) \o FmtInputExceedsTail

KeyValidators ==
    {"ValidateLabelKey", "ValidateLabelKey_annotations", "ValidateLabelOrAnnotationKey"}

MapValidators == {"ValidateMetadataLabels", "ValidateMetadataAnnotations"}

\* The keys of the map whose key, and those whose value, the validators of the
\* map-level validator in fn reject.
BadKeys ==
    {k \in DOMAIN labels :
        IF fn = "ValidateMetadataLabels" THEN ~ValidateLabelKey(k).isNil
        ELSE ~ValidateLabelKey_annotations(k).isNil}

BadValues ==
    {k \in DOMAIN labels :
        IF fn = "ValidateMetadataLabels" THEN ~ValidateLabelValue(labels[k]).isNil
        ELSE ~ValidateAnnotationValue(labels[k]).isNil}

\* The slices errs the loop of the map-level validator in fn can end with.
ErrsOfEveryOrder ==
    {IF fn = "ValidateMetadataLabels" THEN LabelsLoop(<<>>, labels, o)
     ELSE AnnotationsLoop(<<>>, labels, o) : o \in Orders(labels)}

(***************************************************************************)
(* The properties.                                                         *)
(***************************************************************************)

\* C1: a map-level validator looks at every key and every value: with N
\* rejected keys and M rejected values the slice it joins holds exactly N+M
\* messages, all different, the same set of messages whatever the order the
\* map is visited in; the result is their join by "; ", and nil only when
\* N+M = 0.
C1_AggregationIsComplete ==
    (fn \in MapValidators /\ calls = 1) =>
        LET n == Cardinality(BadKeys) + Cardinality(BadValues)
        IN  /\ Len(first.errs) = n
            /\ Cardinality(Range(first.errs)) = n
            /\ \A errs \in ErrsOfEveryOrder : Range(errs) = Range(first.errs)
            /\ first.ret.isNil <=> n = 0
            /\ n > 0 =>
                  first.ret.text
                      = Join([i \in 1..n |-> first.errs[i].text], JoinSeparator)

\* C1 witness: a map with a rejected key and a rejected value in different
\* entries, and three messages or more joined.
C1_Witness ==
    /\ fn = "ValidateMetadataLabels"
    /\ calls = 1
    /\ BadKeys # {}
    /\ BadValues # {}
    /\ BadKeys # BadValues
    /\ Len(first.errs) >= 3
    /\ ~first.ret.isNil

\* C2: the key validators accept a key exactly when it satisfies the
\* qualified-key grammar; "app.kubernetes.io/name" is accepted.
C2_KeyValidatorsFollowGrammar ==
    (fn \in KeyValidators /\ calls >= 1) =>
        /\ first.ret.isNil <=> IsQualifiedKey(arg)
        /\ arg = KeyAppKubernetesIoName => first.ret.isNil

\* C3: a key is split at its first "/" only, the later ones stay in the name
\* part, the name validator rejects that name part, and so every key with two
\* or more "/" is rejected.
C3_TwoSlashesRejected ==
    (fn \in KeyValidators /\ calls >= 1 /\ Count(arg, "/") >= 2) =>
        LET parts == SplitN(arg, "/", 2)
        IN  /\ Len(parts) = 2
            /\ Count(parts[1], "/") = 0
            /\ Count(parts[2], "/") = Count(arg, "/") - 1
            /\ parts[1] \o <<"/">> \o parts[2] = arg
            /\ ~ValidateDNSLabel(parts[2]).isNil
            /\ ~ValidateLabelOrAnnotationNamePart(parts[2]).isNil
            /\ ~first.ret.isNil
            /\ arg = KeyABC => parts = << <<"a">>, <<"b", "/", "c">> >>

\* C3 witness: "a/b/c" and "app.kubernetes.io/role/extra" have been rejected.
C3_Witness ==
    /\ fn \in KeyValidators
    /\ calls >= 1
    /\ arg \in {KeyABC, KeyAppKubernetesIoRoleExtra}
    /\ ~first.ret.isNil

\* C4: ValidateMetadataName accepts every valid DNS subdomain and rejects
\* every string with an upper-case letter.
C4_MetadataNameAcceptsSubdomains ==
    (fn = "ValidateMetadataName" /\ calls >= 1) =>
        /\ IsDNSSubdomainGrammar(arg) => first.ret.isNil
        /\ HasUppercase(arg) => ~first.ret.isNil

\* C5: the empty string fails ValidateMetadataName, ValidateKind and
\* ValidateApiVersion with an empty-input reason, and passes ValidateLabelValue
\* and ValidateAnnotationValue.
C5_EmptyInput ==
    (calls >= 1 /\ arg = <<>>) =>
        /\ fn = "ValidateMetadataName" =>
              ~first.ret.isNil /\ Contains(first.ret.text, MsgInputEmpty)
        /\ fn = "ValidateKind" =>
              ~first.ret.isNil /\ Contains(first.ret.text, MsgKindEmpty)
        /\ fn = "ValidateApiVersion" =>
              ~first.ret.isNil /\ Contains(first.ret.text, MsgApiVersionEmpty)
        /\ fn \in {"ValidateLabelValue", "ValidateLabelValue_part002",
                   "ValidateAnnotationValue"} => first.ret.isNil

\* The field each validator checks, by the maximum length of that field.
FieldMax ==
    [f \in {"ValidateMetadataName", "ValidateDNSSubdomain", "ValidateDNSSubdomain_new"}
        |-> 253]
    @@ [f \in {"ValidateKind", "ValidateApiVersion", "ValidateLabelValue",
               "ValidateLabelValue_part002", "ValidateDNSLabel",
               "ValidateLabelOrAnnotationNamePart"} |-> 63]

\* C6: a string longer than the maximum of the field it is validated as fails,
\* and the failure includes a length-exceeded reason, whatever its bytes are.
\* Inside a key the parts are validated in turn: an over-long prefix always
\* gives its length reason, an over-long name part gives its own whenever the
\* validator gets as far as the name part (no prefix, or a prefix it accepts).
C6_TooLongFailsWithLengthReason ==
    /\ (calls >= 1 /\ fn \in DOMAIN FieldMax /\ Len(arg) > FieldMax[fn]) =>
            /\ ~first.ret.isNil
            /\ Contains(first.ret.text, LengthExceededReason(FieldMax[fn]))
    /\ (calls >= 1 /\ fn \in KeyValidators) =>
            LET parts == SplitN(arg, "/", 2)
                name == parts[Len(parts)]
                prefixPasses ==
                    \/ Len(parts) = 1
                    \/ IF fn = "ValidateLabelOrAnnotationKey"
                       THEN ValidateDNSSubdomain_new(parts[1]).isNil
                       ELSE ValidateDNSSubdomain(parts[1]).isNil
            IN  /\ (Len(parts) = 2 /\ Len(parts[1]) > 253) =>
                      /\ ~first.ret.isNil
                      /\ Contains(first.ret.text, LengthExceededReason(253))
                /\ (Len(name) > 63 /\ prefixPasses) =>
                      /\ ~first.ret.isNil
                      /\ Contains(first.ret.text, LengthExceededReason(63))

\* C6 witness: a string one byte too long for a DNS label, which also breaks
\* the character class, has failed ValidateDNSLabel.
C6_Witness ==
    /\ calls >= 1
    /\ fn = "ValidateDNSLabel"
    /\ Len(arg) = FieldMax[fn] + 1
    /\ arg[1] = "-"
    /\ ~first.ret.isNil

C8_KindFollowsGrammar ==
    (fn = "ValidateKind" /\ calls >= 1) =>
        /\ first.ret.isNil <=> IsKindName(arg)
        /\ arg = KindPod => first.ret.isNil
        /\ arg \in {KindDeployment, Kind123Pod, KindPodService} => ~first.ret.isNil

\* C8 witness: "123Pod" has been rejected.
C8_Witness ==
    /\ fn = "ValidateKind"
    /\ calls >= 1
    /\ arg = Kind123Pod
    /\ ~first.ret.isNil

\* C9: ValidateLabelValue accepts exactly the empty value and the values of at
\* most 63 alphanumerics, "-" and "." that start and end alphanumeric; "v1.2"
\* is accepted.
C9_LabelValueFollowsGrammar ==
    (fn \in {"ValidateLabelValue", "ValidateLabelValue_part002"} /\ calls >= 1) =>
        /\ first.ret.isNil <=> IsLabelValueGrammar(arg)
        /\ arg = ValueV12 => first.ret.isNil

\* C10 as stated: a second call with the same input returns what the first
\* returned, nil or the same failure description.
C10_SecondCallIdentical == calls = 2 => second.ret = first.ret

\* C10 as amended: a second call with the same input succeeds exactly when the
\* first did; a single-value validator returns the same description; a
\* map-level validator joins the same messages, in the same order when range
\* visits the map in the same order.
C10_SecondCallSameMessages ==
    calls = 2 =>
        /\ second.ret.isNil = first.ret.isNil
        /\ fn \notin MapValidators => second = first
        /\ fn \in MapValidators =>
              /\ Len(second.errs) = Len(first.errs)
              /\ Range(second.errs) = Range(first.errs)
              /\ second.order = first.order => second.ret = first.ret

\* C10 witness: two calls on the same map visited it in different orders and
\* returned different descriptions.
C10_Witness ==
    /\ calls = 2
    /\ fn = "ValidateMetadataAnnotations"
    /\ second.order # first.order
    /\ Len(first.errs) >= 2
    /\ second.ret # first.ret

\* The first position at which pat starts in text (0: nowhere).
IndexOf(text, pat) ==
    LET starts ==
            {i \in 1..(Len(text) - Len(pat) + 1) : SubSeq(text, i, i + Len(pat) - 1) = pat}
    IN  IF starts = {} THEN 0 ELSE CHOOSE i \in starts : \A j \in starts : i <= j

\* The messages a reader of the joined description sees: its pieces between
\* the "; " separators.
RECURSIVE SeparatedMessages(_)
SeparatedMessages(text) ==
    LET i == IndexOf(text, JoinSeparator)
    IN  IF i = 0 THEN <<text>>
        ELSE <<SubSeq(text, 1, i - 1)>>
                 \o SeparatedMessages(SubSeq(text, i + Len(JoinSeparator), Len(text)))

\* The name by which a message of validator f can identify the field.
FieldName(f) ==
    CASE f = "ValidateMetadataName" -> <<"m","e","t","a","d","a","t","a",".","n","a","m","e">>
      [] f = "ValidateKind" -> <<"k","i","n","d">>
      [] f = "ValidateApiVersion" -> <<"a","p","i","V","e","r","s","i","o","n">>
      [] f = "ValidateMetadataLabels" -> <<"l","a","b","e","l">>
      [] f = "ValidateMetadataAnnotations" -> <<"a","n","n","o","t","a","t","i","o","n">>

AggregatingValidators ==
    {"ValidateMetadataName", "ValidateKind", "ValidateApiVersion"} \cup MapValidators

\* C11: every message of a combined failure names the field it is about, and
\* for a label or annotation entry the key, quoted: this holds of each message
\* joined and of each "; "-separated piece of the description.
C11_EveryMessageNamesField ==
    (fn \in AggregatingValidators /\ calls >= 1 /\ ~first.ret.isNil) =>
        LET named(msg) ==
                /\ Contains(msg, FieldName(fn))
                /\ fn \in MapValidators =>
                      \E k \in DOMAIN labels : Contains(msg, <<"'">> \o k \o <<"'">>)
        IN  /\ \A i \in 1..Len(first.errs) : named(first.errs[i].text)
            /\ \A msg \in Range(SeparatedMessages(first.ret.text)) : named(msg)


\* The texts by which a key validator reports a missing key.
EmptyKeyMessages == {MsgLabelKeyEmpty, MsgLabelOrAnnotationKeyEmpty}

\* C12: an empty label or annotation key fails with the empty-key failure
\* ("... key must not be empty") and with no grammar failure of a name or
\* prefix, so that a missing key is told apart from a malformed one.
C12_EmptyKeyHasOwnFailure ==
    (fn \in KeyValidators /\ calls >= 1 /\ arg = <<>>) =>
        /\ ~first.ret.isNil
        /\ first.ret.text \in EmptyKeyMessages
        /\ ~Contains(first.ret.text, FmtInvalidName)
        /\ ~Contains(first.ret.text, FmtInvalidNamePart)

===================================================================================
